---- MODULE Spec2Model ----
(***************************************************************************)
(* Model of the two plotting scripts of the repository:                    *)
(*   src/plot_annual_books_userhome.py  (monthly books read)               *)
(*   src/plot_weekly_hours_userhome.py  (weekly hours read)                *)
(*                                                                         *)
(* Three specifications share the variables:                               *)
(*   Spec        one run of main() of either script on one input line      *)
(*   SpecVerify  a direct call of a validator on an arbitrary Python value *)
(*   SpecTick    a direct call of a tick-interval selector                 *)
(*                                                                         *)
(* Python values are records [k, n, items]: k is the Python type, n the    *)
(* numeric value in units of 1/Res (ints are multiples of Res), items the  *)
(* elements of a list.                                                     *)
(***************************************************************************)
EXTENDS Integers, Sequences, FiniteSets, TLC

\* ------------------------------------------------------------- bounds
\* Floats are modelled as multiples of 1/Res.
Res == 2
\* Longest input line (tokens) and longest list handed to a validator.
MaxLen == 13
\* Largest magnitude of a token or list element.
MaxVal == 25
\* Smallest value of a token or list element is -MinVal.
MinVal == 2
\* Largest maximum value handed to a tick-interval selector.
MaxTick == 510

\* ------------------------------------------------------------- program constants
MonthsInYear == 12
DaysInWeek == 7
HoursInDay == 24

\* ------------------------------------------------------------- Python values
Obj(k, n) == [k |-> k, n |-> n, items |-> <<>>]
IntV(i) == Obj("int", i * Res)
FloatV(n) == Obj("float", n)
NaN == Obj("nan", 0)
Inf == Obj("inf", 0)
NoneV == Obj("none", 0)
StrV == Obj("str", 0)
ListV(s) == [k |-> "list", n |-> 0, items |-> s]

\* isinstance(v, int) / isinstance(v, float): nan and inf are floats.
IsInt(v) == v.k = "int"
IsFloat(v) == v.k \in {"float", "nan", "inf"}
IsNumber(v) == IsInt(v) \/ IsFloat(v)

\* a < b and a <= b on numbers: every comparison with nan is False, inf is
\* above every finite number.
PyLT(a, b) ==
    IF a.k = "nan" \/ b.k = "nan" THEN FALSE
    ELSE IF a.k = "inf" THEN FALSE
    ELSE IF b.k = "inf" THEN TRUE
    ELSE a.n < b.n

PyLE(a, b) ==
    IF a.k = "nan" \/ b.k = "nan" THEN FALSE
    ELSE IF b.k = "inf" THEN TRUE
    ELSE IF a.k = "inf" THEN FALSE
    ELSE a.n <= b.n

\* The outcome of an expression: a value, or an exception raised.
Ok(v) == [exc |-> FALSE, val |-> v]
Raise == [exc |-> TRUE, val |-> NoneV]

\* len(v): TypeError for a value that has no length.
PyLen(v) == IF v.k \in {"list", "str"} THEN Ok(Len(v.items)) ELSE Raise

\* max(list) as Python computes it: the first element, replaced by each later
\* element that compares greater.
RECURSIVE PyMaxFrom(_, _)
PyMaxFrom(cur, s) ==
    IF s = <<>> THEN cur
    ELSE PyMaxFrom(IF PyLT(cur, Head(s)) THEN Head(s) ELSE cur, Tail(s))

PyMax(s) == PyMaxFrom(Head(s), Tail(s))

\* a + b on numbers; the sum is an int only when both are.
PyAdd(a, b) ==
    IF a.k = "nan" \/ b.k = "nan" THEN NaN
    ELSE IF a.k = "inf" \/ b.k = "inf" THEN Inf
    ELSE Obj(IF IsInt(a) /\ IsInt(b) THEN "int" ELSE "float", a.n + b.n)

\* A str of n characters (as an argument; as a list element its content is
\* immaterial).
StrOf(n) == [k |-> "str", n |-> 0, items |-> [i \in 1..n |-> StrV]]

\* ------------------------------------------------------------- printed messages
MsgYearlyInput == "Error in accepting yearly data"
MsgYearlyShape == "The data list should have 12 elements"
MsgWeeklyShape == "The data list should have 7 elements"
MsgPlotLength == "The length of the list must match"
MsgError == "error"

\* ------------------------------------------------------------- validators
\* The result of a call: the value returned, what was printed during the
\* call, and whether an exception left the function instead of a return.
Returned(r, p) == [ret |-> r, printed |-> p, raised |-> FALSE]
Escaped == [ret |-> FALSE, printed |-> <<>>, raised |-> TRUE]

\* isinstance(books, int) and books >= 0
YearlyElemOk(books) == IsInt(books) /\ books.n >= 0

\* The for loop of verify_yearly_data: the flag is set by each element that
\* passes, and never reset.
RECURSIVE YearlyLoop(_, _)
YearlyLoop(s, verification) ==
    IF s = <<>> THEN verification
    ELSE YearlyLoop(Tail(s), IF YearlyElemOk(Head(s)) THEN TRUE ELSE verification)

\* Mutant of VerifyYearlyTry: the length is not checked.
VerifyYearlyTryNoLength(yearly_data) ==
    LET l == PyLen(yearly_data) IN
    IF l.exc THEN Escaped
    ELSE Returned(YearlyLoop(yearly_data.items, FALSE), <<>>)

\* The try block of verify_yearly_data.
VerifyYearlyTry(yearly_data) ==
    LET l == PyLen(yearly_data) IN
    IF l.exc THEN Escaped
    ELSE IF l.val = MonthsInYear
         THEN Returned(YearlyLoop(yearly_data.items, FALSE), <<>>)
         ELSE Returned(FALSE, <<MsgYearlyShape>>)

\* Mutant of VerifyYearly: no except clause, the exception leaves the function.
VerifyYearlyNoExcept(yearly_data) == VerifyYearlyTry(yearly_data)

\* except Exception: print(error); return False
VerifyYearly(yearly_data) ==
    LET t == VerifyYearlyTry(yearly_data) IN
    IF t.raised THEN Returned(FALSE, <<MsgError>>) ELSE t

\* Mutant of WeeklyElemOk: the type test of the monthly validator.
WeeklyElemOkInt(hours) ==
    IsInt(hours) /\ PyLT(FloatV(0), hours) /\ PyLT(hours, FloatV(HoursInDay * Res))

\* isinstance(hours, float) and 0.0 < hours < 24.00
WeeklyElemOk(hours) ==
    IsFloat(hours) /\ PyLT(FloatV(0), hours) /\ PyLT(hours, FloatV(HoursInDay * Res))

RECURSIVE WeeklyLoop(_, _)
WeeklyLoop(s, verification) ==
    IF s = <<>> THEN verification
    ELSE WeeklyLoop(Tail(s), IF WeeklyElemOk(Head(s)) THEN TRUE ELSE verification)

VerifyWeeklyTry(weekly_data) ==
    LET l == PyLen(weekly_data) IN
    IF l.exc THEN Escaped
    ELSE IF l.val = DaysInWeek
         THEN Returned(WeeklyLoop(weekly_data.items, FALSE), <<>>)
         ELSE Returned(FALSE, <<MsgWeeklyShape>>)

VerifyWeekly(weekly_data) ==
    LET t == VerifyWeeklyTry(weekly_data) IN
    IF t.raised THEN Returned(FALSE, <<MsgError>>) ELSE t

\* ------------------------------------------------------------- tick intervals
\* Mutant of TickMonthlyTry: < for <=.
TickMonthlyTryStrict(max_value) ==
    IF ~IsNumber(max_value) THEN Escaped
    ELSE IF PyLT(max_value, IntV(10)) THEN Returned(IntV(1), <<>>)
    ELSE IF PyLT(max_value, IntV(50)) THEN Returned(IntV(5), <<>>)
    ELSE IF PyLT(max_value, IntV(100)) THEN Returned(IntV(10), <<>>)
    ELSE IF PyLT(max_value, IntV(500)) THEN Returned(IntV(50), <<>>)
    ELSE Returned(IntV(100), <<>>)

\* Mutant of TickMonthlyTry: the chain ends with an elif and no else, so a
\* value above 500 falls off the end of the function: None.
TickMonthlyTryNoElse(max_value) ==
    IF ~IsNumber(max_value) THEN Escaped
    ELSE IF PyLE(max_value, IntV(10)) THEN Returned(IntV(1), <<>>)
    ELSE IF PyLE(max_value, IntV(50)) THEN Returned(IntV(5), <<>>)
    ELSE IF PyLE(max_value, IntV(100)) THEN Returned(IntV(10), <<>>)
    ELSE IF PyLE(max_value, IntV(500)) THEN Returned(IntV(50), <<>>)
    ELSE Returned(NoneV, <<>>)

\* The if/elif chain of the monthly calculate_ytick_interval; comparing a
\* value that is no number raises TypeError.
TickMonthlyTry(max_value) ==
    IF ~IsNumber(max_value) THEN Escaped
    ELSE IF PyLE(max_value, IntV(10)) THEN Returned(IntV(1), <<>>)
    ELSE IF PyLE(max_value, IntV(50)) THEN Returned(IntV(5), <<>>)
    ELSE IF PyLE(max_value, IntV(100)) THEN Returned(IntV(10), <<>>)
    ELSE IF PyLE(max_value, IntV(500)) THEN Returned(IntV(50), <<>>)
    ELSE Returned(IntV(100), <<>>)

\* except Exception: print(error), and the function ends without a return
\* statement: None.
TickMonthly(max_value) ==
    LET t == TickMonthlyTry(max_value) IN
    IF t.raised THEN Returned(NoneV, <<MsgError>>) ELSE t

\* Mutant of TickWeeklyTry: the last band ends at 25 instead of 24.
TickWeeklyTryLate(max_value) ==
    IF ~IsNumber(max_value) THEN Escaped
    ELSE IF PyLE(max_value, IntV(5)) THEN Returned(IntV(1), <<>>)
    ELSE IF PyLE(max_value, IntV(10)) THEN Returned(IntV(2), <<>>)
    ELSE IF PyLE(max_value, IntV(15)) THEN Returned(IntV(3), <<>>)
    ELSE IF PyLE(max_value, IntV(20)) THEN Returned(IntV(4), <<>>)
    ELSE IF PyLE(max_value, IntV(HoursInDay + 1)) THEN Returned(IntV(5), <<>>)
    ELSE Returned(IntV(8), <<>>)

\* The if/elif chain of the weekly calculate_ytick_interval.
TickWeeklyTry(max_value) ==
    IF ~IsNumber(max_value) THEN Escaped
    ELSE IF PyLE(max_value, IntV(5)) THEN Returned(IntV(1), <<>>)
    ELSE IF PyLE(max_value, IntV(10)) THEN Returned(IntV(2), <<>>)
    ELSE IF PyLE(max_value, IntV(15)) THEN Returned(IntV(3), <<>>)
    ELSE IF PyLE(max_value, IntV(20)) THEN Returned(IntV(4), <<>>)
    ELSE IF PyLE(max_value, IntV(HoursInDay)) THEN Returned(IntV(5), <<>>)
    ELSE Returned(IntV(8), <<>>)

TickWeekly(max_value) ==
    LET t == TickWeeklyTry(max_value) IN
    IF t.raised THEN Returned(NoneV, <<MsgError>>) ELSE t

\* ------------------------------------------------------------- input tokens
\* A whitespace-separated token of the input line: a numeral ("num", its value
\* n in units of 1/Res), the texts "nan" and "inf" that float() accepts, or a
\* text float() rejects ("bad", such as "abc").
Tok(k, n) == [k |-> k, n |-> n]
BadTok == Tok("bad", 0)

\* float(token): ValueError for a text that is no float literal.
PyFloat(tok) ==
    IF tok.k = "bad" THEN Raise
    ELSE IF tok.k = "nan" THEN Ok(NaN)
    ELSE IF tok.k = "inf" THEN Ok(Inf)
    ELSE Ok(FloatV(tok.n))

\* int(x) of a float: truncation toward zero; ValueError for nan,
\* OverflowError for inf.
PyInt(x) ==
    IF x.k \in {"nan", "inf"} THEN Raise
    ELSE IF x.n >= 0 THEN Ok(IntV(x.n \div Res))
    ELSE Ok(IntV(-((-x.n) \div Res)))

\* Mutant of PyAbs: the value is kept as it is.
PyAbsKeep(x) == x

\* abs(x)
PyAbs(x) == Obj(x.k, IF x.n < 0 THEN -x.n ELSE x.n)

\* ------------------------------------------------------------- collectors
\* Mutant of YearlyCollectLoop: a token float() rejects is skipped.
RECURSIVE YearlyCollectLoopSkip(_, _)
YearlyCollectLoopSkip(toks, yearly_data) ==
    IF toks = <<>> THEN Ok(ListV(yearly_data))
    ELSE LET f == PyFloat(Head(toks)) IN
         IF f.exc THEN YearlyCollectLoopSkip(Tail(toks), yearly_data)
         ELSE LET i == PyInt(f.val) IN
              IF i.exc THEN Raise
              ELSE YearlyCollectLoopSkip(Tail(toks), Append(yearly_data, PyAbs(i.val)))

\* The for loop of get_yearly_data over the lazy map(float, ...): each token
\* is converted when the loop reaches it.
RECURSIVE YearlyCollectLoop(_, _)
YearlyCollectLoop(toks, yearly_data) ==
    IF toks = <<>> THEN Ok(ListV(yearly_data))
    ELSE LET f == PyFloat(Head(toks)) IN
         IF f.exc THEN Raise
         ELSE LET i == PyInt(f.val) IN
              IF i.exc THEN Raise
              ELSE YearlyCollectLoop(Tail(toks), Append(yearly_data, PyAbs(i.val)))

\* input() raises EOFError at the end of the input.
GetYearlyDataTry(ln) ==
    IF ln.eof THEN Raise ELSE YearlyCollectLoop(ln.toks, <<>>)

\* except Exception: print(...), and the function ends without a return
\* statement: None.
GetYearlyData(ln) ==
    LET t == GetYearlyDataTry(ln) IN
    IF t.exc THEN Returned(NoneV, <<MsgYearlyInput>>) ELSE Returned(t.val, <<>>)

RECURSIVE WeeklyCollectLoop(_, _)
WeeklyCollectLoop(toks, weekly_data) ==
    IF toks = <<>> THEN Ok(ListV(weekly_data))
    ELSE LET f == PyFloat(Head(toks)) IN
         IF f.exc THEN Raise
         ELSE WeeklyCollectLoop(Tail(toks), Append(weekly_data, f.val))

\* get_weekly_data has no try: the exception leaves it.
GetWeeklyData(ln) ==
    LET t == IF ln.eof THEN Raise ELSE WeeklyCollectLoop(ln.toks, <<>>) IN
    IF t.exc THEN Escaped ELSE Returned(t.val, <<>>)

\* ------------------------------------------------------------- renderers
\* What a renderer call did: whether it got past its length check to draw,
\* the tick interval, the upper bound of the y axis, and the number of points
\* handed to smooth_data (0: not called).
NoChart == [drawn |-> FALSE, tick |-> NoneV, top |-> NoneV, smooth |-> 0]

\* Mutant of PlotBooksPerMonth: the axis ends at max + 1, as in the weekly
\* script.
PlotBooksPerMonthPlusOne(books_read) ==
    LET l == PyLen(books_read) IN
    IF l.exc \/ l.val # MonthsInYear
    THEN [chart |-> NoChart, printed |-> <<MsgPlotLength>>]
    ELSE LET mx == PyMax(books_read.items)
             t == TickMonthly(mx)
         IN [chart |-> [drawn |-> TRUE, tick |-> t.ret,
                        top |-> PyAdd(mx, IntV(1)), smooth |-> l.val],
             printed |-> t.printed]

\* The try block of plot_books_per_month up to the axis computation; its
\* except prints the error.
PlotBooksPerMonth(books_read) ==
    LET l == PyLen(books_read) IN
    IF l.exc \/ l.val # MonthsInYear
    THEN [chart |-> NoChart, printed |-> <<MsgPlotLength>>]
    ELSE LET mx == PyMax(books_read.items)
             t == TickMonthly(mx)
         IN IF ~IsNumber(t.ret)
            THEN [chart |-> NoChart, printed |-> t.printed \o <<MsgError>>]
            ELSE [chart |-> [drawn |-> TRUE, tick |-> t.ret,
                             top |-> PyAdd(mx, t.ret), smooth |-> l.val],
                  printed |-> t.printed]

\* The try block of plot_hours_spent_per_day up to the axis computation.
PlotHoursSpentPerDay(hours_spent) ==
    LET l == PyLen(hours_spent) IN
    IF l.exc \/ l.val # DaysInWeek
    THEN [chart |-> NoChart, printed |-> <<MsgPlotLength>>]
    ELSE LET mx == PyMax(hours_spent.items)
             t == TickWeekly(mx)
         IN [chart |-> [drawn |-> TRUE, tick |-> t.ret,
                        top |-> PyAdd(mx, IntV(1)), smooth |-> 0],
             printed |-> t.printed]

\* ------------------------------------------------------------- state
VARIABLES
    script,   \* which script runs: "monthly" or "weekly"
    line,     \* the input line: [eof, toks]
    pc,       \* position in main, or in the direct call
    data,     \* books_read / weekly_data
    ver,      \* the validator's answer
    out,      \* the messages printed so far
    calls,    \* how often each stage was invoked
    chart,    \* what the renderer did
    arg,      \* the argument of a direct call
    fn,       \* the function called directly
    result,   \* the result of the direct call
    img       \* the run of text_to_image_dalle.py: texts entered, API calls, images shown

vars == <<script, line, pc, data, ver, out, calls, chart, arg, fn, result, img>>
\* The variables of a run of main other than pc.
runVars == <<script, line, data, ver, out, calls, chart>>
callVars == <<arg, fn, result>>

\* ------------------------------------------------------------- inputs
TokVals == (-(MinVal * Res))..(MaxVal * Res)
Tokens == {Tok("num", n) : n \in TokVals} \cup {Tok("nan", 0), Tok("inf", 0), BadTok}
\* "1", "7.5" (at Res = 2), "0", "-1"
BaseTokens == {Tok("num", Res), Tok("num", 7 * Res + 1), Tok("num", 0), Tok("num", -Res)}

\* n elements: b, with o at position p (p in 1..n), or b and o in turn (p = 0),
\* or b alone (p > n).
Mixed(n, b, p, o) ==
    [i \in 1..n |-> IF i = p \/ (p = 0 /\ i % 2 = 0) THEN o ELSE b]
\* The tokens 1 2 ... n.
Ramp(n) == [i \in 1..n |-> Tok("num", i * Res)]

LineToks ==
    {Ramp(n) : n \in 0..MaxLen}
    \cup {Mixed(n, b, p, o) : n \in 1..MaxLen, b \in BaseTokens, p \in 0..MaxLen, o \in Tokens}

Lines == {[eof |-> TRUE, toks |-> <<>>]} \cup {[eof |-> FALSE, toks |-> t] : t \in LineToks}

NoCalls == [collect |-> 0, verify |-> 0, plot |-> 0]
\* text_to_image_dalle.py before anything was entered: the lengths of the
\* selected text, of the prompt and of the complete prompt (-1: none yet), the
\* last menu choice and the length of the last custom prompt typed, the number
\* of prompts repeated, the API calls made and whether the last one succeeded,
\* and the images shown.
NoImg ==
    [text |-> -1, textTries |-> 0, choice |-> "none", custom |-> -1, prompt |-> -1,
     promptTries |-> 0, complete |-> -1, api |-> 0, apiOk |-> FALSE, shown |-> 0]
NoResult == Returned(FALSE, <<>>)

\* ------------------------------------------------------------- main
Init ==
    /\ script \in {"monthly", "weekly"}
    /\ line \in Lines
    /\ pc = "start"
    /\ data = NoneV
    /\ ver = FALSE
    /\ out = <<>>
    /\ calls = NoCalls
    /\ chart = NoChart
    /\ arg = NoneV
    /\ fn = "none"
    /\ result = NoResult
    /\ img = NoImg

\* books_read = get_yearly_data()
MonthlyCollect ==
    /\ script = "monthly" /\ pc = "start"
    /\ LET r == GetYearlyData(line) IN
        /\ data' = r.ret
        /\ out' = out \o r.printed
    /\ calls' = [calls EXCEPT !.collect = @ + 1]
    /\ pc' = "collected"
    /\ UNCHANGED <<script, line, ver, chart, callVars, img>>

\* ver = verify_yearly_data(books_read); an exception leaving the validator
\* would be printed by main's except.
MonthlyVerify ==
    /\ script = "monthly" /\ pc = "collected"
    /\ LET r == VerifyYearly(data) IN
        /\ ver' = (~r.raised /\ r.ret)
        /\ out' = out \o r.printed \o (IF r.raised THEN <<MsgError>> ELSE <<>>)
        /\ pc' = IF r.raised THEN "done" ELSE "verified"
    /\ calls' = [calls EXCEPT !.verify = @ + 1]
    /\ UNCHANGED <<script, line, data, chart, callVars, img>>

\* Mutant of MonthlyPlot: the renderer is called whatever the validator said.
MonthlyPlotUnchecked ==
    /\ script = "monthly" /\ pc = "verified"
    /\ LET r == PlotBooksPerMonth(data) IN
        /\ chart' = r.chart
        /\ out' = out \o r.printed
    /\ calls' = [calls EXCEPT !.plot = @ + 1]
    /\ pc' = "done"
    /\ UNCHANGED <<script, line, data, ver, callVars, img>>

\* if ver is True: plot_books_per_month(books_read)
MonthlyPlot ==
    /\ script = "monthly" /\ pc = "verified" /\ ver = TRUE
    /\ LET r == PlotBooksPerMonth(data) IN
        /\ chart' = r.chart
        /\ out' = out \o r.printed
    /\ calls' = [calls EXCEPT !.plot = @ + 1]
    /\ pc' = "done"
    /\ UNCHANGED <<script, line, data, ver, callVars, img>>

\* ver is not True: main returns.
MonthlySkip ==
    /\ script = "monthly" /\ pc = "verified" /\ ver # TRUE
    /\ pc' = "done"
    /\ UNCHANGED <<script, line, data, ver, out, calls, chart, callVars, img>>

\* weekly_data = get_weekly_data(); its exception is printed by main's except
\* and main returns.
WeeklyCollect ==
    /\ script = "weekly" /\ pc = "start"
    /\ LET r == GetWeeklyData(line) IN
        /\ data' = IF r.raised THEN data ELSE r.ret
        /\ out' = out \o r.printed \o (IF r.raised THEN <<MsgError>> ELSE <<>>)
        /\ pc' = IF r.raised THEN "done" ELSE "collected"
    /\ calls' = [calls EXCEPT !.collect = @ + 1]
    /\ UNCHANGED <<script, line, ver, chart, callVars, img>>

WeeklyVerify ==
    /\ script = "weekly" /\ pc = "collected"
    /\ LET r == VerifyWeekly(data) IN
        /\ ver' = (~r.raised /\ r.ret)
        /\ out' = out \o r.printed \o (IF r.raised THEN <<MsgError>> ELSE <<>>)
        /\ pc' = IF r.raised THEN "done" ELSE "verified"
    /\ calls' = [calls EXCEPT !.verify = @ + 1]
    /\ UNCHANGED <<script, line, data, chart, callVars, img>>

WeeklyPlot ==
    /\ script = "weekly" /\ pc = "verified" /\ ver = TRUE
    /\ LET r == PlotHoursSpentPerDay(data) IN
        /\ chart' = r.chart
        /\ out' = out \o r.printed
    /\ calls' = [calls EXCEPT !.plot = @ + 1]
    /\ pc' = "done"
    /\ UNCHANGED <<script, line, data, ver, callVars, img>>

WeeklySkip ==
    /\ script = "weekly" /\ pc = "verified" /\ ver # TRUE
    /\ pc' = "done"
    /\ UNCHANGED <<script, line, data, ver, out, calls, chart, callVars, img>>

Next ==
    \/ MonthlyCollect
    \/ MonthlyVerify
    \/ MonthlyPlot
    \/ MonthlySkip
    \/ WeeklyCollect
    \/ WeeklyVerify
    \/ WeeklyPlot
    \/ WeeklySkip

Spec == Init /\ [][Next]_vars

\* ------------------------------------------------------------- direct calls of the validators
Elems ==
    {IntV(i) : i \in (-MinVal)..MaxVal} \cup {FloatV(n) : n \in TokVals}
    \cup {NaN, Inf, NoneV, StrV}
\* 3, -1, 7.5 (at Res = 2), 0.0, 24.0, a str
BaseElems ==
    {IntV(3), IntV(-1), FloatV(7 * Res + 1), FloatV(0), FloatV(HoursInDay * Res), StrV}

VerifyArgs ==
    {NoneV, IntV(5), FloatV(1), ListV(<<>>)}
    \cup {StrOf(n) : n \in 0..MaxLen}
    \cup {ListV(Mixed(n, b, p, o)) : n \in 1..MaxLen, b \in BaseElems, p \in 0..MaxLen, o \in Elems}

InitVerify ==
    /\ arg \in VerifyArgs
    /\ pc = "ready"
    /\ fn = "none"
    /\ result = NoResult
    /\ img = NoImg
    /\ script = "none"
    /\ line = [eof |-> TRUE, toks |-> <<>>]
    /\ data = NoneV
    /\ ver = FALSE
    /\ out = <<>>
    /\ calls = NoCalls
    /\ chart = NoChart

\* verify_yearly_data(arg)
CallVerifyYearly ==
    /\ pc = "ready"
    /\ fn' = "verify_yearly_data"
    /\ result' = VerifyYearly(arg)
    /\ pc' = "called"
    /\ UNCHANGED <<arg, runVars, img>>

\* verify_weekly_data(arg)
CallVerifyWeekly ==
    /\ pc = "ready"
    /\ fn' = "verify_weekly_data"
    /\ result' = VerifyWeekly(arg)
    /\ pc' = "called"
    /\ UNCHANGED <<arg, runVars, img>>

NextVerify ==
    \/ CallVerifyYearly
    \/ CallVerifyWeekly

SpecVerify == InitVerify /\ [][NextVerify]_vars

\* ------------------------------------------------------------- direct calls of the tick-interval selectors
TickArgs ==
    {IntV(i) : i \in (-MinVal)..MaxTick}
    \cup {FloatV(n) : n \in (-(MinVal * Res))..(MaxTick * Res)}
    \cup {NaN, Inf, NoneV, StrV}

InitTick ==
    /\ arg \in TickArgs
    /\ pc = "ready"
    /\ fn = "none"
    /\ result = Returned(NoneV, <<>>)
    /\ img = NoImg
    /\ script = "none"
    /\ line = [eof |-> TRUE, toks |-> <<>>]
    /\ data = NoneV
    /\ ver = FALSE
    /\ out = <<>>
    /\ calls = NoCalls
    /\ chart = NoChart

\* calculate_ytick_interval(arg) of plot_annual_books_userhome.py
CallTickMonthly ==
    /\ pc = "ready"
    /\ fn' = "monthly"
    /\ result' = TickMonthly(arg)
    /\ pc' = "called"
    /\ UNCHANGED <<arg, runVars, img>>

\* calculate_ytick_interval(arg) of plot_weekly_hours_userhome.py
CallTickWeekly ==
    /\ pc = "ready"
    /\ fn' = "weekly"
    /\ result' = TickWeekly(arg)
    /\ pc' = "called"
    /\ UNCHANGED <<arg, runVars, img>>

NextTick ==
    \/ CallTickMonthly
    \/ CallTickWeekly

SpecTick == InitTick /\ [][NextTick]_vars

\* ------------------------------------------------------------- text_to_image_dalle.py
\* Longest selected text and longest custom prompt a user types, and the most
\* prompts repeated in one run.
MaxText == 605
MaxCustom == 285
MaxRetries == 3

\* Texts are modelled by their lengths.
TextLimit == 600
PromptLimit == 280
\* len("." + "\n"), appended to a custom prompt
CustomSuffixLen == 2
\* len(" Description: ")
DescriptionLen == 14
\* The lengths of the four predefined prompts.
Prompt1Len == 120
Prompt2Len == 211
Prompt3Len == 244
Prompt4Len == 252

MsgTextInvalid == "Selected text cannot be empty nor can it exceed 1000 charcters!"
MsgPromptInvalid == "Invalid input for prompt selection, please try again."
MsgPromptLong == "Your prompt exceed the 300 character limit"
MsgEncountered == "Error encountered"

\* Mutant of TextInvalid: the test the docstring describes.
TextInvalidEither(n) == n <= 0 \/ n > TextLimit

\* 0 >= len(sel_text) > 600: a chained comparison, both must hold.
TextInvalid(n) == 0 >= n /\ n > TextLimit

\* Mutant of CustomTooLong: the limit the message names.
CustomTooLong300(l) == l > 300

\* len(sel_prompt) > 280
CustomTooLong(l) == l > PromptLimit

\* The menu entries: "x" stands for every entry other than "1" to "5".
Choices == {"1", "2", "3", "4", "5", "x"}

PredefinedLen(c) ==
    CASE c = "1" -> Prompt1Len
      [] c = "2" -> Prompt2Len
      [] c = "3" -> Prompt3Len
      [] c = "4" -> Prompt4Len

\* The lengths a user may type: every length in a direct call, the boundary
\* lengths in a run of main.
TextLens == IF script = "image" THEN {0, 1, TextLimit, TextLimit + 1} ELSE 0..MaxText
CustomLens ==
    IF script = "image"
    THEN {0, PromptLimit - CustomSuffixLen, PromptLimit - CustomSuffixLen + 1}
    ELSE 0..MaxCustom

\* The number of times message m was printed.
RECURSIVE Printed(_, _)
Printed(m, o) ==
    IF o = <<>> THEN 0 ELSE (IF Head(o) = m THEN 1 ELSE 0) + Printed(m, Tail(o))

InitImg(s, p) ==
    /\ script = s
    /\ pc = p
    /\ img = NoImg
    /\ out = <<>>
    /\ line = [eof |-> TRUE, toks |-> <<>>]
    /\ data = NoneV
    /\ ver = FALSE
    /\ calls = NoCalls
    /\ chart = NoChart
    /\ arg = NoneV
    /\ fn = "none"
    /\ result = NoResult

imgRest == <<script, line, data, ver, calls, chart, arg, fn, result>>

\* get_selected_text: one input(); an invalid text is reported and the function
\* calls itself, returning what that call returns.
TextEnter ==
    /\ pc = "text"
    /\ \E n \in TextLens :
        /\ TextInvalid(n) => img.textTries < MaxRetries
        /\ IF TextInvalid(n)
           THEN /\ out' = Append(out, MsgTextInvalid)
                /\ img' = [img EXCEPT !.textTries = @ + 1]
                /\ pc' = "text"
           ELSE /\ out' = out
                /\ img' = [img EXCEPT !.text = n]
                /\ pc' = IF script = "image" THEN "prompt" ELSE "returned"
    /\ UNCHANGED imgRest

\* get_user_prompts: the menu input() and the match on it; every other entry is
\* reported and the function calls itself.
PromptEnter ==
    /\ pc = "prompt"
    /\ \E c \in Choices :
        /\ c = "x" => img.promptTries < MaxRetries
        /\ IF c \in {"1", "2", "3", "4"}
           THEN /\ img' = [img EXCEPT !.choice = c, !.custom = -1,
                                      !.prompt = PredefinedLen(c)]
                /\ out' = out
                /\ pc' = IF script = "image" THEN "compose" ELSE "returned"
           ELSE IF c = "5"
           THEN /\ img' = [img EXCEPT !.choice = c, !.custom = -1]
                /\ out' = out
                /\ pc' = "custom"
           ELSE /\ img' = [img EXCEPT !.choice = c, !.custom = -1,
                                      !.promptTries = @ + 1]
                /\ out' = Append(out, MsgPromptInvalid)
                /\ pc' = "prompt"
    /\ UNCHANGED imgRest

\* case "5": the custom prompt is read, "." and "\n" are appended, and a prompt
\* that is too long is reported and replaced by what a new call returns.
CustomEnter ==
    /\ pc = "custom"
    /\ \E n \in CustomLens :
        LET l == n + CustomSuffixLen IN
        /\ CustomTooLong(l) => img.promptTries < MaxRetries
        /\ IF CustomTooLong(l)
           THEN /\ img' = [img EXCEPT !.custom = n, !.promptTries = @ + 1]
                /\ out' = Append(out, MsgPromptLong)
                /\ pc' = "prompt"
           ELSE /\ img' = [img EXCEPT !.custom = n, !.prompt = l]
                /\ out' = out
                /\ pc' = IF script = "image" THEN "compose" ELSE "returned"
    /\ UNCHANGED imgRest

\* prompt = get_complete_prompt(sel_txt, sel_prompt)
Compose ==
    /\ pc = "compose"
    /\ img' = [img EXCEPT !.complete = img.prompt + DescriptionLen + img.text]
    /\ pc' = "image"
    /\ UNCHANGED <<out, imgRest>>

\* img_file = get_image(client, prompt): one client.images.generate call, which
\* answers or raises (an API error, the 30 s timeout); the exception is printed
\* and None returned.
GetImage ==
    /\ pc = "image"
    /\ \E ok \in BOOLEAN :
        /\ img' = [img EXCEPT !.api = @ + 1, !.apiOk = ok]
        /\ out' = IF ok THEN out ELSE Append(out, MsgEncountered)
    /\ pc' = "display"
    /\ UNCHANGED imgRest

\* display_image_json(img_file): b64decode(None) raises TypeError; image data
\* decodes and is shown, or Image.open raises; every exception is printed.
DisplayImage ==
    /\ pc = "display"
    /\ \E good \in BOOLEAN :
        IF img.apiOk /\ good
        THEN /\ img' = [img EXCEPT !.shown = @ + 1]
             /\ out' = out
        ELSE /\ img' = img
             /\ out' = Append(out, MsgEncountered)
    /\ pc' = "done"
    /\ UNCHANGED imgRest

\* main(client) of text_to_image_dalle.py
InitImage == InitImg("image", "text")
NextImage ==
    \/ TextEnter
    \/ PromptEnter
    \/ CustomEnter
    \/ Compose
    \/ GetImage
    \/ DisplayImage
SpecImage == InitImage /\ [][NextImage]_vars

\* A direct call of get_selected_text
InitText == InitImg("text", "text")
NextText == TextEnter
SpecText == InitText /\ [][NextText]_vars

\* A direct call of get_user_prompts
InitPrompt == InitImg("prompt", "prompt")
NextPrompt ==
    \/ PromptEnter
    \/ CustomEnter
SpecPrompt == InitPrompt /\ [][NextPrompt]_vars

\* ============================================================= claims
\* An element that is an integer >= 0.
NonNegInt(e) == e.k = "int" /\ e.n >= 0
\* An element whose value lies strictly between 0.0 and 24.0.
InOpenDay(e) == e.k \in {"int", "float"} /\ 0 < e.n /\ e.n < HoursInDay * Res
CalledWith(f) == pc = "called" /\ fn = f
IsListOf(v, n) == v.k = "list" /\ Len(v.items) = n
HasLength(v) == v.k \in {"list", "str"}
Weekly75 == ListV([i \in 1..DaysInWeek |-> FloatV(7 * Res + 1)])

\* C1 (as claimed): verify_yearly_data returns True only for a list of exactly
\* 12 elements that are ALL integers >= 0; a 12-element list with one element
\* negative or not an integer gets False.
C1_YearlyTrueOnlyIfAll ==
    (CalledWith("verify_yearly_data") /\ result.ret = TRUE)
        => /\ IsListOf(arg, MonthsInYear)
           /\ \A i \in 1..Len(arg.items) : NonNegInt(arg.items[i])

\* C2 (as claimed): verify_weekly_data returns False for every 7-element series
\* with at least one element not strictly between 0.0 and 24.0.
C2_WeeklyFalseIfAnyOutside ==
    (/\ CalledWith("verify_weekly_data")
     /\ IsListOf(arg, DaysInWeek)
     /\ \E i \in 1..Len(arg.items) : ~InOpenDay(arg.items[i]))
        => result.ret = FALSE

\* C3: both validators return False for every input whose length differs from
\* the expected one (12, 7), whatever its elements, the empty series included.
C3_WrongLengthIsFalse ==
    /\ (CalledWith("verify_yearly_data") /\ HasLength(arg)
            /\ Len(arg.items) # MonthsInYear)
        => (~result.raised /\ result.ret = FALSE)
    /\ (CalledWith("verify_weekly_data") /\ HasLength(arg)
            /\ Len(arg.items) # DaysInWeek)
        => (~result.raised /\ result.ret = FALSE)

\* C3 witness: thirteen integers >= 0 were handed to verify_yearly_data, which
\* returned False.
C3_Witness ==
    /\ CalledWith("verify_yearly_data")
    /\ IsListOf(arg, MonthsInYear + 1)
    /\ \A i \in 1..Len(arg.items) : NonNegInt(arg.items[i])
    /\ result.ret = FALSE

\* C4: verify_weekly_data returns True for every 7-element series of floats that
\* are all strictly between 0.0 and 24.0.
C4_WeeklyAllInsideIsTrue ==
    (/\ CalledWith("verify_weekly_data")
     /\ IsListOf(arg, DaysInWeek)
     /\ \A i \in 1..Len(arg.items) :
            arg.items[i].k = "float" /\ InOpenDay(arg.items[i]))
        => result.ret = TRUE

\* C4 witness: seven times 7.5 was validated as True.
C4_Witness ==
    /\ CalledWith("verify_weekly_data")
    /\ arg = Weekly75
    /\ result.ret = TRUE

\* The run of the monthly script on the line "1 2 ... 12" has ended.
RampRunDone ==
    /\ script = "monthly"
    /\ line = [eof |-> FALSE, toks |-> Ramp(MonthsInYear)]
    /\ pc = "done"

RampParsedAndValid ==
    /\ data = ListV([i \in 1..MonthsInYear |-> IntV(i)])
    /\ ver = TRUE
    /\ calls.plot = 1
    /\ chart.drawn

\* C5 (as claimed): for the line 1 2 ... 12 the monthly pipeline parses [1..12],
\* validates it as True and renders with a y-axis upper bound of 13.
C5_RampTopIs13 ==
    RampRunDone => (RampParsedAndValid /\ chart.top = IntV(13))

\* C5 (amended): for the line 1 2 ... 12 the monthly pipeline parses [1..12],
\* validates it as True and renders with the tick interval 5 and a y-axis upper
\* bound of 12 + 5 = 17.
C5_RampTopIs17 ==
    RampRunDone
        => (RampParsedAndValid /\ chart.tick = IntV(5) /\ chart.top = IntV(17))

\* C5 witness: that run has ended with the chart drawn.
C5_Witness == RampRunDone /\ chart.drawn

\* The bands of the selectors, on a value m in units of 1/Res.
MonthlyBand(m) ==
    IF m <= 10 * Res THEN 1
    ELSE IF 10 * Res < m /\ m <= 50 * Res THEN 5
    ELSE IF 50 * Res < m /\ m <= 100 * Res THEN 10
    ELSE IF 100 * Res < m /\ m <= 500 * Res THEN 50
    ELSE 100

WeeklyBand(m) ==
    IF m <= 5 * Res THEN 1
    ELSE IF 5 * Res < m /\ m <= 10 * Res THEN 2
    ELSE IF 10 * Res < m /\ m <= 15 * Res THEN 3
    ELSE IF 15 * Res < m /\ m <= 20 * Res THEN 4
    ELSE IF 20 * Res < m /\ m <= 24 * Res THEN 5
    ELSE 8

NonNegFinite(v) == v.k \in {"int", "float"} /\ v.n >= 0

\* C6: the monthly calculate_ytick_interval maps a non-negative m to 1 (m <= 10),
\* 5 (10 < m <= 50), 10 (50 < m <= 100), 50 (100 < m <= 500), 100 (m > 500); the
\* boundaries 10, 50, 100, 500 fall in the lower band and the next value above
\* each in the higher band.
C6_MonthlyBands ==
    (CalledWith("monthly") /\ NonNegFinite(arg))
        => /\ ~result.raised
           /\ result.ret = IntV(MonthlyBand(arg.n))
           /\ (arg.n = 10 * Res => result.ret = IntV(1))
           /\ (arg.n = 10 * Res + 1 => result.ret = IntV(5))
           /\ (arg.n = 50 * Res => result.ret = IntV(5))
           /\ (arg.n = 50 * Res + 1 => result.ret = IntV(10))
           /\ (arg.n = 100 * Res => result.ret = IntV(10))
           /\ (arg.n = 100 * Res + 1 => result.ret = IntV(50))
           /\ (arg.n = 500 * Res => result.ret = IntV(50))
           /\ (arg.n = 500 * Res + 1 => result.ret = IntV(100))

\* C6 witness: the boundary 500 was mapped to 50.
C6_Witness ==
    CalledWith("monthly") /\ arg = IntV(500) /\ result.ret = IntV(50)

\* C7: the weekly calculate_ytick_interval maps a non-negative m to 1 (m <= 5),
\* 2 (5 < m <= 10), 3 (10 < m <= 15), 4 (15 < m <= 20), 5 (20 < m <= 24), 8
\* (m > 24); it returns 5 for 24 and 8 for 25.
C7_WeeklyBands ==
    (CalledWith("weekly") /\ NonNegFinite(arg))
        => /\ ~result.raised
           /\ result.ret = IntV(WeeklyBand(arg.n))
           /\ (arg.n = 24 * Res => result.ret = IntV(5))
           /\ (arg.n = 25 * Res => result.ret = IntV(8))

\* C7 witness: 25 was mapped to 8.
C7_Witness ==
    CalledWith("weekly") /\ arg = IntV(25) /\ result.ret = IntV(8)

\* C8 (as claimed): whenever a validator returns False, a message has been
\* printed during that call.
C8_FalseIsPrinted ==
    (pc = "called" /\ fn \in {"verify_yearly_data", "verify_weekly_data"}
        /\ result.ret = FALSE)
        => result.printed # <<>>

HasBadToken == \E i \in 1..Len(line.toks) : line.toks[i].k = "bad"

\* C9: when the input line holds a non-numeric token (one float() rejects), in
\* both pipelines a message is printed once the collector has run, no series is
\* built from the remaining tokens or validated as True, and the renderer is
\* never invoked.
C9_BadTokenSurfaced ==
    HasBadToken
        => /\ pc # "start" => out # <<>>
           /\ data.k # "list"
           /\ ver = FALSE
           /\ calls.plot = 0
           /\ ~chart.drawn

\* C9 witness: the monthly run on thirteen tokens, twelve numerals and one
\* non-numeric token, has ended.
C9_Witness ==
    /\ script = "monthly"
    /\ Len(line.toks) = MonthsInYear + 1
    /\ HasBadToken
    /\ \A i \in 1..Len(line.toks) : line.toks[i].k \in {"bad", "num"}
    /\ pc = "done"

\* C10: no exception leaves a validator: every call returns a boolean, and it
\* is False for None and for every other value that has no length.
C10_NoExceptionEscapes ==
    (pc = "called" /\ fn \in {"verify_yearly_data", "verify_weekly_data"})
        => /\ ~result.raised
           /\ result.ret \in BOOLEAN
           /\ (~HasLength(arg) => result.ret = FALSE)

\* C10 witness: verify_yearly_data(None) returned False after printing the
\* error.
C10_Witness ==
    /\ CalledWith("verify_yearly_data")
    /\ arg = NoneV
    /\ ~result.raised
    /\ result.ret = FALSE
    /\ result.printed # <<>>

\* A non-negative maximum value: a finite number >= 0, or inf.
NonNeg(v) == NonNegFinite(v) \/ v.k = "inf"
\* A positive Python int.
PositiveInt(v) == v.k = "int" /\ v.n >= Res /\ v.n % Res = 0
\* The selector that was called, applied to another value.
TickOf(f, v) == IF f = "monthly" THEN TickMonthly(v) ELSE TickWeekly(v)

\* C11: both tick-interval selectors are total and monotonic: for every
\* non-negative maximum value the result is a positive integer (never None,
\* never 0), and the interval of every smaller non-negative value is not larger.
C11_TotalMonotonic ==
    (pc = "called" /\ fn \in {"monthly", "weekly"} /\ NonNeg(arg))
        => /\ ~result.raised
           /\ result.printed = <<>>
           /\ PositiveInt(result.ret)
           /\ \A a \in TickArgs :
                (NonNeg(a) /\ PyLE(a, arg))
                    => /\ PositiveInt(TickOf(fn, a).ret)
                       /\ TickOf(fn, a).ret.n <= result.ret.n

\* C11 witness: the monthly selector returned 100 for a value above 500, the
\* largest interval, above the intervals of all smaller values.
C11_Witness ==
    /\ CalledWith("monthly")
    /\ arg = IntV(501)
    /\ result.ret = IntV(100)
    /\ TickMonthly(IntV(500)).ret = IntV(50)

\* C15: in every run of the monthly pipeline the series that reaches
\* plot_books_per_month has exactly 12 elements, each an integer >= 0 (the
\* collector replaced negative tokens by their absolute value), so smooth_data
\* is only ever called with 12 points, never with fewer than 4.
C15_PlottedSeriesIsMonthly ==
    script = "monthly"
        => /\ chart.smooth \in {0, MonthsInYear}
           /\ calls.plot > 0
                => /\ IsListOf(data, MonthsInYear)
                   /\ \A i \in 1..Len(data.items) : NonNegInt(data.items[i])
                   /\ chart.drawn
                   /\ chart.smooth = MonthsInYear

\* C15 witness: a line of twelve numerals, one of them negative, was plotted.
C15_Witness ==
    /\ script = "monthly"
    /\ calls.plot = 1
    /\ chart.smooth = MonthsInYear
    /\ \E i \in 1..Len(line.toks) : line.toks[i].k = "num" /\ line.toks[i].n <= -Res

\* The stages ran at most once each and in order, and the renderer only after
\* the validator returned True for the series the collector built.
C16_Order ==
    /\ calls.collect <= 1 /\ calls.verify <= 1 /\ calls.plot <= 1
    /\ calls.verify = 1 => calls.collect = 1
    /\ calls.plot = 1
        => /\ calls.verify = 1 /\ ver = TRUE /\ data.k = "list"
           /\ IF script = "monthly" THEN VerifyYearly(data).ret
                                    ELSE VerifyWeekly(data).ret
    /\ (calls.collect = 1 /\ data.k # "list") => calls.plot = 0
    /\ (calls.verify = 1 /\ ver = FALSE) => calls.plot = 0
    /\ pc = "done" => calls.collect = 1

\* Once collected the series is not replaced, and after a failed collection or
\* validation the only step left is the end of the run: no stage runs again.
C16_Step ==
    /\ calls.collect = 1 => data' = data
    /\ calls.verify = 1 => ver' = ver
    /\ (calls.verify = 1 /\ ver = FALSE) => (calls' = calls /\ pc' = "done")
    /\ pc = "done" => UNCHANGED vars

\* C16: in both pipelines the stages run in the order collect, validate,
\* render, each at most once per run; the renderer is invoked only after the
\* validator returned True for the same series, never when the validator
\* returned False or the collector failed, and then the run ends without
\* prompting again.
C16_StagesInOrder == [][C16_Order /\ C16_Order' /\ C16_Step]_vars

\* C16 witness: a weekly run ended after the validator returned False, with no
\* renderer call and one collector call.
C16_Witness ==
    /\ script = "weekly"
    /\ pc = "done"
    /\ calls = [collect |-> 1, verify |-> 1, plot |-> 0]
    /\ ver = FALSE
    /\ IsListOf(data, DaysInWeek)


\* C12 (as claimed): get_selected_text only returns a valid text: every value it
\* returns is non-empty and at most 600 characters long (an empty or longer
\* text being reported and asked for again).
C12_ReturnedTextValid ==
    (script = "text" /\ pc = "returned")
        => (1 <= img.text /\ img.text <= TextLimit)

\* C13 (as claimed): the image API is invoked at most once per run, and when
\* that call failed a single failure has been reported when the run ends.
C13_OneCallOneReport ==
    script = "image"
        => /\ img.api <= 1
           /\ (pc = "done" /\ img.api = 1 /\ ~img.apiOk)
                => (Printed(MsgEncountered, out) = 1 /\ img.shown = 0)

====
